---------------------------- MODULE Spec2Model ----------------------------
(***************************************************************************)
(* A model of scripts/fetch_bbk_curve.py: the retrying GET (_get), the two *)
(* response parsers (_parse_json, _parse_csv), the endpoint chain          *)
(* (fetch_series) and the run (main) that gates on the 10Y anchor,         *)
(* reconciles the two 7Y codes and assembles the curve.                    *)
(*                                                                         *)
(* Conventions.  A calendar date is the integer yyyymmdd, so that the      *)
(* order of dates is the order of integers; NaT is pandas' missing date.   *)
(* A float is its canonical text ("2.1"), NaN the missing float.  A Series *)
(* is the sequence of its <<date, value>> entries in index order.  A       *)
(* response text is a record: raw characters, a JSON document as           *)
(* json.loads sees it, or a delimited table as pandas.read_csv sees it.    *)
(***************************************************************************)
EXTENDS Integers, Sequences, FiniteSets, TLC

VARIABLES
    pc,       \* where the run is: "call", "get", "got_response", "raised",
              \* "ret", "assemble", "exit"
    k,        \* main: position in CallOrder of the code being fetched
    ep,       \* fetch_series: which try-block (1..3) is executing
    url,      \* _get: its url argument, [tmpl, code]
    headers,  \* _get: its headers argument
    tries,    \* _get: its tries argument
    attempt,  \* _get: iterations of the for loop started so far
    last,     \* _get: the local `last`
    out,      \* the outcome of the most recent requests.get
    resp,     \* fetch_series: the local r (the response _get returned)
    err,      \* the exception raised and not yet handled
    s,        \* fetch_series: the local s (the parser's result)
    ret,      \* the value fetch_series returned to main
              \* (a Series variable not yet assigned holds the empty Series)
    tried,    \* per URL template, what this fetch_series call got from it
    s7a, s7b, \* main: the two 7Y variants
    got,      \* main: the dict got, as a sequence of <<label, Series>>
    df,       \* main: the assembled frame, [columns, rows]
    written,  \* whether data/de_bbk_curve.csv was written, and
    file,     \* what was written
    status,   \* the process exit status (Running until it exits)
    nCalls,   \* fetch_series calls made in this run
    callGets  \* requests.get calls issued by the current fetch_series call

vars == <<pc, k, ep, url, headers, tries, attempt, last, out, resp, err, s,
          ret, tried, s7a, s7b, got, df, written, file, status, nCalls,
          callGets>>

---------------------------------------------------------------------------
(* Bounds of the model.                                                    *)

\* rows of a table, observations and period labels of a JSON document
MaxRows == 2
\* the largest tries argument _get is called with on its own
MaxTries == 4
\* length of the long error page (longer than the 180 characters kept)
LongBody == 181

---------------------------------------------------------------------------
(* Configuration: lines 5-22.                                              *)

NoneVal == "None"
\* the exit status of a process that has not exited
Running == -1
\* None where a url, an outcome of requests.get, a failure reason or an
\* exception is expected
NoUrl == [tmpl |-> NoneVal, code |-> NoneVal]
NoOutcome == [kind |-> NoneVal]
NoReason == [what |-> NoneVal, status |-> 0, text |-> <<>>]
NoError == [type |-> NoneVal, msg |-> NoReason]
\* the message "empty response"
EmptyResponse == [what |-> "empty response", status |-> 0, text |-> <<>>]
\* the message of an exception that is not _get's
NoMessage == [what |-> "", status |-> 0, text |-> <<>>]
NaT == 0
NaN == "nan"
EmptySeries == <<>>

CODES == [lbl \in {"2Y", "5Y", "7Y_A", "7Y_B", "10Y", "15Y", "30Y"} |->
            CASE lbl = "2Y"   -> "WT0202"
              [] lbl = "5Y"   -> "WT0505"
              [] lbl = "7Y_A" -> "WT0707"
              [] lbl = "7Y_B" -> "WT7070"
              [] lbl = "10Y"  -> "WT1010"
              [] lbl = "15Y"  -> "WT1515"
              [] lbl = "30Y"  -> "WT3030"]

BBK_DATA    == "BBK_DATA"
BBK_DL_HYPH == "BBK_DL_HYPH"
BBK_DL_UND  == "BBK_DL_UND"
HEAD_JSON   == "HEAD_JSON"
HEAD_CSV    == "HEAD_CSV"

Templates == {BBK_DATA, BBK_DL_HYPH, BBK_DL_UND}

\* the default of _get's tries parameter
DefaultTries == 3
\* r.text[:180]
ReasonChars == 180

---------------------------------------------------------------------------
(* Sequences.                                                              *)

Range(q) == {q[i] : i \in 1..Len(q)}

SeqsUpTo(S, n) == UNION {[1..m -> S] : m \in 0..n}

Min(a, b) == IF a < b THEN a ELSE b
Max(a, b) == IF a > b THEN a ELSE b

\* text[:n]
Prefix(chars, n) == SubSeq(chars, 1, Min(Len(chars), n))

---------------------------------------------------------------------------
(* Series: pandas operations used by the parsers and by main.              *)

Dates(sr) == [i \in 1..Len(sr) |-> sr[i][1]]

\* Series.size, len(Series)
Size(sr) == Len(sr)

\* Series.empty
IsEmpty(sr) == Len(sr) = 0

\* the order sort_index puts index labels in: dates ascending, NaT last
Before(a, b) == a # NaT /\ (b = NaT \/ a < b)

\* one step of a stable sort: e goes after every entry not after it
InsertSorted(sorted, e) ==
    LET n == Len(sorted)
        later == {i \in 1..n : Before(e[1], sorted[i][1])}
        p == IF later = {} THEN n + 1
             ELSE CHOOSE i \in later : \A j \in later : i <= j
    IN SubSeq(sorted, 1, p - 1) \o <<e>> \o SubSeq(sorted, p, n)

RECURSIVE SortPrefix(_, _)
SortPrefix(sr, n) ==
    IF n = 0 THEN <<>> ELSE InsertSorted(SortPrefix(sr, n - 1), sr[n])

\* Series.sort_index()
SortIndex(sr) == SortPrefix(sr, Len(sr))

\* Series.dropna(): entries whose value is NaN go
DropNa(sr) == SelectSeq(sr, LAMBDA e : e[2] # NaN)

\* DataFrame.dropna(subset=[dcol]): rows whose date is NaT go
DropNaT(sr) == SelectSeq(sr, LAMBDA e : e[1] # NaT)

\* a Python dict built from key/value pairs in order: a key keeps the place
\* of its first insertion and the value of its last
RECURSIVE DictOf(_, _)
DictOf(pairs, n) ==
    IF n = 0 THEN <<>>
    ELSE LET d == DictOf(pairs, n - 1)
             e == pairs[n]
             at == {i \in 1..Len(d) : d[i][1] = e[1]}
         IN IF at = {} THEN Append(d, e)
            ELSE [i \in 1..Len(d) |-> IF i \in at THEN e ELSE d[i]]

---------------------------------------------------------------------------
(* Conversions.                                                            *)

\* pd.to_datetime(label, errors="coerce")
ToDatetime(label) ==
    CASE label = "2024-01-01" -> 20240101
      [] label = "2024-01-02" -> 20240102
      [] label = "2024-01-03" -> 20240103
      [] label = "2024-01-04" -> 20240104
      [] OTHER -> NaT

\* pd.to_numeric(cell, errors="coerce"), and float(str) where it succeeds
ToNumeric(cell) ==
    CASE cell = "2.00" -> "2.0"
      [] cell = "2.10" -> "2.1"
      [] cell = "2.15" -> "2.15"
      [] cell = "1.50" -> "1.5"
      [] cell = "1.80" -> "1.8"
      [] cell = "1.90" -> "1.9"
      [] cell = "1.95" -> "1.95"
      [] cell = "1.97" -> "1.97"
      [] cell = "2.40" -> "2.4"
      [] cell = "2.60" -> "2.6"
      [] cell = "2.70" -> "2.7"
      [] OTHER -> NaN

\* str.lower() of a column name
Lower(name) ==
    CASE name = "TIME_PERIOD" -> "time_period"
      [] name = "Date"        -> "date"
      [] name = "OBS_VALUE"   -> "obs_value"
      [] name = "Value"       -> "value"
      [] name = "Close"       -> "close"
      [] name = "KEY"         -> "key"
      [] OTHER -> name

\* int(k) of an observation key
IntOf(key) ==
    CASE key = "0"  -> 0
      [] key = "1"  -> 1
      [] key = "2"  -> 2
      [] key = "-1" -> -1

\* whether float(v) succeeds on a JSON value (Series(..., dtype=float))
Floatable(jv) == jv.t # "str" \/ ToNumeric(jv.v) # NaN

\* the float a JSON value becomes: null is NaN
ToFloat(jv) ==
    CASE jv.t = "num"  -> jv.v
      [] jv.t = "null" -> NaN
      [] jv.t = "str"  -> ToNumeric(jv.v)

\* whether idx[i] exists for a Python list of n elements
InRange(i, n) == -n <= i /\ i < n

\* idx[i] of a Python list (1-based here), negative i counting from the end
PyIndex(idx, i) == IF i >= 0 THEN idx[i + 1] ELSE idx[Len(idx) + i + 1]

\* the characters str.strip() removes, those str.isspace() holds for; a
\* character that has no escape here is written by its name
Whitespace ==
    {" ", "\t", "\n", "\r", "\f", "VT", "FS", "GS", "RS", "US", "NEL", "NBSP",
     "U+1680", "U+2000", "U+2001", "U+2002", "U+2003", "U+2004", "U+2005",
     "U+2006", "U+2007", "U+2008", "U+2009", "U+200A", "U+2028", "U+2029",
     "U+202F", "U+205F", "U+3000"}

\* str.strip() leaves nothing
IsBlank(text) ==
    text.kind = "raw" /\ \A i \in 1..Len(text.chars) : text.chars[i] \in Whitespace

---------------------------------------------------------------------------
(* The parsers.  A call ends in a Series or in an exception.               *)

Return(sr) == [exc |-> NoneVal, s |-> sr]
Raise(name) == [exc |-> name, s |-> EmptySeries]

\* lines 37-48.  A document is [top, dataSets, series, obs, structure, times]:
\* obs are the observations of the first series of the first data set, in
\* document order, each <<key, first element of its value list>>; times are
\* the ids of structure.dimensions.observation[0].values.
ParseJson(text) ==
    IF text.kind # "json" THEN Raise("JSONDecodeError")
    ELSE IF text.top # "object" THEN Raise("AttributeError")
    ELSE IF text.dataSets = "empty" THEN Raise("IndexError")
    ELSE IF text.dataSets = "absent" \/ text.series # "present"
         THEN Return(EmptySeries)
    ELSE IF ~text.structure THEN Raise("KeyError")
    ELSE LET idx == [i \in 1..Len(text.times) |-> ToDatetime(text.times[i])]
             obs == text.obs
         IN IF \E i \in 1..Len(obs) : ~InRange(IntOf(obs[i][1]), Len(idx))
            THEN Raise("IndexError")
            ELSE LET d == DictOf([i \in 1..Len(obs) |->
                                    <<PyIndex(idx, IntOf(obs[i][1])), obs[i][2]>>],
                                 Len(obs))
                 IN IF \E i \in 1..Len(d) : ~Floatable(d[i][2])
                    THEN Raise("ValueError")
                    ELSE Return(SortIndex(DropNa([i \in 1..Len(d) |->
                                    <<d[i][1], ToFloat(d[i][2])>>])))

\* cols.get(a) or cols.get(b) or ...: the column (its position, 0 for None)
\* whose lower-cased name is the first of `names` the header has.
\* read_csv renames a column whose name repeats an earlier one (X.1, ...), so
\* such a column matches no name; of two columns whose names differ in
\* case only the dict keeps the later
Renamed(header, j) == \E i \in 1..(j - 1) : header[i] = header[j]

ColOf(header, name) ==
    LET at == {j \in 1..Len(header) :
                  Lower(header[j]) = name /\ ~Renamed(header, j)}
    IN IF at = {} THEN 0 ELSE CHOOSE j \in at : \A i \in at : i <= j

RECURSIVE FirstCol(_, _)
FirstCol(header, names) ==
    IF names = <<>> THEN 0
    ELSE IF ColOf(header, Head(names)) # 0 THEN ColOf(header, Head(names))
    ELSE FirstCol(header, Tail(names))

\* lines 50-59.  A table is [header, rows], each row the fields of one data
\* line, which may be fewer or more than the header names.  Of raw text
\* (text with no delimiter) read_csv skips a byte order mark at the start
\* and the lines that are empty or hold blanks and tabs only, and raises
\* when no line is left; it refuses text that ends inside a quoted field;
\* other raw text is a table of one column, which has no date column or no
\* value column.
BlankLineChars == {" ", "\t", "\n", "\r"}

\* the text after the byte order mark
SkipBom(chars) ==
    IF Len(chars) > 0 /\ chars[1] = "U+FEFF" THEN Tail(chars) ELSE chars

LineEnds == {"\n", "\r"}

\* the tokenizer of read_csv over text with no delimiter: at the start of
\* a line ("start"), inside a plain field ("field"), inside a quoted field
\* ("quoted"), or after a quote met inside a quoted field ("closing": a
\* second quote makes it one escaped quote and the field goes on).  A
\* quote opens a quoted field only as the first character of a line
QuoteStep(st, c) ==
    CASE st = "start" ->
            IF c = "\"" THEN "quoted"
            ELSE IF c \in LineEnds THEN "start" ELSE "field"
      [] st = "field" -> IF c \in LineEnds THEN "start" ELSE "field"
      [] st = "quoted" -> IF c = "\"" THEN "closing" ELSE "quoted"
      [] st = "closing" ->
            IF c = "\"" THEN "quoted"
            ELSE IF c \in LineEnds THEN "start" ELSE "field"

RECURSIVE QuoteState(_, _)
QuoteState(chars, n) ==
    IF n = 0 THEN "start" ELSE QuoteStep(QuoteState(chars, n - 1), chars[n])

\* the text ends inside a quoted field (EOF inside string)
UnclosedQuote(chars) == QuoteState(chars, Len(chars)) = "quoted"

\* the fields read_csv expects of a line: those of the first data line, or
\* the header's when it has more (a short line is padded)
TableWidth(header, rows) ==
    IF rows = <<>> THEN Len(header) ELSE Max(Len(header), Len(rows[1]))

\* a line after the first data line with more fields than expected is
\* refused (Expected n fields in line l, saw m)
Ragged(header, rows) ==
    \E i \in 2..Len(rows) : Len(rows[i]) > TableWidth(header, rows)

\* the cell of a row under the header's column j: the fields a first data
\* line has beyond the header are the index and come first; a field the
\* line does not have is missing
Field(header, rows, i, j) ==
    LET at == j + (TableWidth(header, rows) - Len(header))
    IN IF at <= Len(rows[i]) THEN rows[i][at] ELSE ""

ParseCsv(text) ==
    IF text.kind = "raw"
    THEN LET chars == SkipBom(text.chars)
         IN IF \A i \in 1..Len(chars) : chars[i] \in BlankLineChars
            THEN Raise("EmptyDataError")
            ELSE IF UnclosedQuote(chars) THEN Raise("ParserError")
            ELSE Return(EmptySeries)
    ELSE IF Ragged(text.header, text.rows) THEN Raise("ParserError")
    ELSE LET dcol == FirstCol(text.header, <<"time_period", "date">>)
             vcol == FirstCol(text.header, <<"obs_value", "value", "close">>)
         IN IF dcol = 0 \/ vcol = 0 THEN Return(EmptySeries)
            ELSE Return(SortIndex(DropNaT([i \in 1..Len(text.rows) |->
                    <<ToDatetime(Field(text.header, text.rows, i, dcol)),
                      ToNumeric(Field(text.header, text.rows, i, vcol))>>])))

---------------------------------------------------------------------------
(* The upstream: what requests.get may answer.  The data the provider      *)
(* holds per code is fixed; an endpoint renders it in its format, or       *)
(* answers with a payload that carries no series, or with one the parser   *)
(* cannot read; any attempt may also fail.                                 *)

RawText(chars) == [kind |-> "raw", chars |-> chars]

\* the observations held per code, in upstream order: <<period, value>>,
\* "." being the provider's mark for a missing value
Data(code) ==
    CASE code = "WT1010" -> << <<"2024-01-01", "2.00">>, <<"2024-01-02", "2.10">>,
                               <<"2024-01-02", "2.15">> >>
      [] code = "WT0202" -> << <<"2024-01-02", "1.50">> >>
      [] code = "WT0505" -> << <<"2024-01-01", "1.80">>, <<"2024-01-03", "1.90">> >>
      [] code = "WT1515" -> << <<"2024-01-03", "2.40">> >>
      [] code = "WT3030" -> << <<"2024-01-01", "2.60">>, <<"2024-01-02", "2.70">> >>
      [] code = "WT0707" -> << <<"2024-01-02", "1.95">>, <<"2024-01-03", ".">> >>
      [] code = "WT7070" -> << <<"2024-01-01", "1.97">>, <<"2024-01-04", ".">> >>

JsonDoc(top, dataSets, series, obs, structure, times) ==
    [kind |-> "json", top |-> top, dataSets |-> dataSets, series |-> series,
     obs |-> obs, structure |-> structure, times |-> times]

JsonValue(cell) ==
    IF ToNumeric(cell) = NaN THEN [t |-> "null"] ELSE [t |-> "num", v |-> ToNumeric(cell)]

KeyOf(i) == CASE i = 0 -> "0" [] i = 1 -> "1" [] i = 2 -> "2"

\* the data as SDMX-JSON: one period label and one observation per entry
RenderJson(data) ==
    JsonDoc("object", "present", "present",
            [i \in 1..Len(data) |-> <<KeyOf(i - 1), JsonValue(data[i][2])>>],
            TRUE,
            [i \in 1..Len(data) |-> data[i][1]])

CsvTable(header, rows) == [kind |-> "csv", header |-> header, rows |-> rows]

DateNames == {"time_period", "date"}
ValueNames == {"obs_value", "value", "close"}

\* one table line under a header: the period in the date columns, the
\* value in the value columns, the series key elsewhere
RenderRow(header, entry) ==
    [j \in 1..Len(header) |->
        IF Lower(header[j]) \in DateNames THEN entry[1]
        ELSE IF Lower(header[j]) \in ValueNames THEN entry[2]
        ELSE "BBK01"]

\* the data as SDMX-CSV
RenderCsv(header, data) ==
    CsvTable(header, [i \in 1..Len(data) |-> RenderRow(header, data[i])])

SdmxHeader == <<"KEY", "TIME_PERIOD", "OBS_VALUE">>

ErrorPage == RawText(<<"B", "u", "s", "y">>)
LongPage == RawText([i \in 1..LongBody |-> "x"])
BlankPage == RawText(<<" ", "\f", "\n">>)

\* a document without a series block
NoSeriesDoc == JsonDoc("object", "present", "empty", <<>>, TRUE, <<>>)

\* a table whose one observation, of the first period, has no value
NoValueTable(code) ==
    RenderCsv(SdmxHeader, << <<Data(code)[1][1], ".">> >>)

\* a table whose second line has a field too many
RaggedTable(code) ==
    CsvTable(SdmxHeader,
             << RenderRow(SdmxHeader, Data(code)[1]),
                Append(RenderRow(SdmxHeader, Data(code)[1]), "x") >>)

\* the non-blank bodies an endpoint may send with status 200
Bodies(u) ==
    IF u.tmpl = BBK_DATA
    THEN {RenderJson(Data(u.code)), NoSeriesDoc, ErrorPage}
    ELSE {RenderCsv(SdmxHeader, Data(u.code)), ErrorPage,
          RaggedTable(u.code), NoValueTable(u.code)}

Response(code, text) == [kind |-> "resp", status |-> code, text |-> text]
Exception(name, msg) == [kind |-> "exc", name |-> name, msg |-> msg]

\* what one requests.get(url, headers=headers, timeout=45) may do
Outcomes(u, h) ==
    {Response(200, b) : b \in Bodies(u)}
    \cup {Response(200, BlankPage), Response(503, LongPage),
          Exception("ConnectionError", <<"r", "e", "s", "e", "t">>)}

---------------------------------------------------------------------------
(* The frame: pd.DataFrame(got).sort_index().dropna(how="all") and to_csv. *)

Count(idx, d) == Cardinality({i \in 1..Len(idx) : idx[i] = d})

HasDuplicates(idx) == \E i, j \in 1..Len(idx) : i # j /\ idx[i] = idx[j]

RECURSIVE SortedSeq(_)
SortedSeq(S) ==
    IF S = {} THEN <<>>
    ELSE LET m == CHOOSE x \in S : \A y \in S : x = y \/ Before(x, y)
         IN <<m>> \o SortedSeq(S \ {m})

RECURSIVE Flatten(_, _)
Flatten(seqs, n) == IF n = 0 THEN <<>> ELSE Flatten(seqs, n - 1) \o seqs[n]

\* Index.union of two sorted indexes: every label of either, in order, as
\* often as the index that has it most often
UnionIndex(a, b) ==
    LET ds == SortedSeq(Range(a) \cup Range(b))
    IN Flatten([i \in 1..Len(ds) |->
                  [j \in 1..Max(Count(a, ds[i]), Count(b, ds[i])) |-> ds[i]]],
               Len(ds))

\* union_indexes over the Series of the dict, in its order
RECURSIVE UnionIndexes(_, _)
UnionIndexes(g, n) ==
    IF n = 1 THEN Dates(g[1][2])
    ELSE UnionIndex(UnionIndexes(g, n - 1), Dates(g[n][2]))

\* Series.reindex(index) succeeds: the index is its own, or it has no
\* duplicate labels
Reindexable(sr, index) == Dates(sr) = index \/ ~HasDuplicates(Dates(sr))

\* the cell of row i after reindex: NaN where the Series has no such label
CellAt(sr, index, i) ==
    IF Dates(sr) = index THEN sr[i][2]
    ELSE LET at == {j \in 1..Len(sr) : sr[j][1] = index[i]}
         IN IF at = {} THEN NaN ELSE sr[CHOOSE j \in at : TRUE][2]

\* pd.DataFrame(got): a frame [columns, rows], a row being <<date, cells>>,
\* or the ValueError of a reindex on duplicate labels
DataFrame(g) ==
    LET index == UnionIndexes(g, Len(g))
    IN IF \E c \in 1..Len(g) : ~Reindexable(g[c][2], index)
       THEN [exc |-> "ValueError", columns |-> <<>>, rows |-> <<>>]
       ELSE [exc |-> NoneVal,
             columns |-> [c \in 1..Len(g) |-> g[c][1]],
             rows |-> [i \in 1..Len(index) |->
                         <<index[i], [c \in 1..Len(g) |-> CellAt(g[c][2], index, i)]>>]]

\* (mutation: no row is dropped)
DropAllNaKeepsAll(rows) == rows

\* DataFrame.dropna(how="all")
DropAllNa(rows) ==
    SelectSeq(rows, LAMBDA r : \E c \in 1..Len(r[2]) : r[2][c] # NaN)

\* date_format="%Y-%m-%d"; a missing date is written empty
FormatDate(d) ==
    CASE d = 20240101 -> "2024-01-01"
      [] d = 20240102 -> "2024-01-02"
      [] d = 20240103 -> "2024-01-03"
      [] d = 20240104 -> "2024-01-04"
      [] OTHER -> ""

\* float_format="%.6f"; a missing value is written empty
FormatFloat(v) ==
    CASE v = "2.0"  -> "2.000000"
      [] v = "2.1"  -> "2.100000"
      [] v = "2.15" -> "2.150000"
      [] v = "1.5"  -> "1.500000"
      [] v = "1.8"  -> "1.800000"
      [] v = "1.9"  -> "1.900000"
      [] v = "1.95" -> "1.950000"
      [] v = "1.97" -> "1.970000"
      [] v = "2.4"  -> "2.400000"
      [] v = "2.6"  -> "2.600000"
      [] v = "2.7"  -> "2.700000"
      [] OTHER -> ""

\* df.to_csv(...): the header line and one line per row
ToCsv(frame) ==
    [header |-> <<"Date">> \o frame.columns,
     lines |-> [i \in 1..Len(frame.rows) |->
                  <<FormatDate(frame.rows[i][1])>> \o
                  [c \in 1..Len(frame.columns) |-> FormatFloat(frame.rows[i][2][c])]]]

NoFrame == [columns |-> <<>>, rows |-> <<>>]
NoFile == [header |-> <<>>, lines |-> <<>>]

---------------------------------------------------------------------------
(* _get: lines 24-35.                                                      *)

\* (mutation: the body is not looked at)
SucceededOnStatusAlone(o) == o.kind = "resp" /\ o.status = 200

\* line 29: r.status_code == 200 and r.text.strip()
Succeeded(o) == o.kind = "resp" /\ o.status = 200 /\ ~IsBlank(o.text)

\* lines 31 and 33: the reason a failed attempt leaves in `last`
ReasonOf(o) ==
    IF o.kind = "resp"
    THEN [what |-> "HTTP", status |-> o.status,
          text |-> Prefix(o.text.chars, ReasonChars)]
    ELSE [what |-> o.name, status |-> 0, text |-> o.msg]

\* (mutation: the first reason is kept)
NextLastKeepsFirst(prev, o) == IF prev = NoReason THEN ReasonOf(o) ELSE prev

\* lines 31 and 33: `last` after a failed attempt
NextLast(prev, o) == ReasonOf(o)

\* line 35: RuntimeError(last or "empty response")
RaisedError(reason) ==
    [type |-> "RuntimeError",
     msg |-> IF reason = NoReason THEN EmptyResponse ELSE reason]

\* (mutation: one iteration too many)
InRangeInclusive(i, n) == i <= n

\* line 26: `for _ in range(tries)` has an iteration left after i of them
InRangeOf(i, n) == i < n

\* one iteration of the loop: the GET, then return r, or record the reason
\* and sleep
GetAttempt ==
    /\ pc = "get"
    /\ InRangeOf(attempt, tries)
    /\ \E o \in Outcomes(url, headers) :
          /\ out' = o
          /\ IF Succeeded(o)
             THEN /\ pc' = "got_response"
                  /\ resp' = o
                  /\ last' = NoReason
             ELSE /\ pc' = "get"
                  /\ resp' = resp
                  /\ last' = NextLast(last, o)
    /\ attempt' = attempt + 1
    /\ callGets' = callGets + 1
    /\ UNCHANGED <<k, ep, url, headers, tries, err, s, ret, tried, s7a, s7b,
                   got, df, written, file, status, nCalls>>

\* the loop is over: raise
GetRaise ==
    /\ pc = "get"
    /\ ~InRangeOf(attempt, tries)
    /\ pc' = "raised"
    /\ err' = RaisedError(last)
    /\ last' = NoReason
    /\ UNCHANGED <<k, ep, url, headers, tries, attempt, out, resp, s, ret,
                   tried, s7a, s7b, got, df, written, file, status, nCalls,
                   callGets>>

---------------------------------------------------------------------------
(* fetch_series: lines 61-98.                                              *)

\* the order main resolves the labels in, and the code it passes for each
CallOrder == <<"10Y", "2Y", "5Y", "15Y", "30Y", "7Y_A", "7Y_B">>

\* (mutation: the second 7Y call asks for the first variant's code again)
CodeOfOneVariant(lbl) ==
    CASE lbl = "2Y"  -> "WT0202"
      [] lbl = "5Y"  -> "WT0505"
      [] lbl = "15Y" -> "WT1515"
      [] lbl = "30Y" -> "WT3030"
      [] lbl = "7Y_B" -> CODES["7Y_A"]
      [] OTHER -> CODES[lbl]

CodeOf(lbl) ==
    CASE lbl = "2Y"  -> "WT0202"
      [] lbl = "5Y"  -> "WT0505"
      [] lbl = "15Y" -> "WT1515"
      [] lbl = "30Y" -> "WT3030"
      [] OTHER -> CODES[lbl]

Blocks == 3

\* (mutation: the third block asks the second block's URL again)
ChainTmplRepeatsHyphen(e) == IF e = 1 THEN BBK_DATA ELSE BBK_DL_HYPH

\* the URL template, the headers and the parser of each try-block
ChainTmpl(e) ==
    CASE e = 1 -> BBK_DATA [] e = 2 -> BBK_DL_HYPH [] e = 3 -> BBK_DL_UND

ChainHead(e) == IF e = 1 THEN HEAD_JSON ELSE HEAD_CSV

ChainParse(e, text) == IF e = 1 THEN ParseJson(text) ELSE ParseCsv(text)

\* (mutation: the return is missing)
ShortCircuitsNever(sr) == FALSE

\* lines 66, 78, 90: `if not s.empty: return s`
ShortCircuits(sr) == ~IsEmpty(sr)

\* (mutation: `except RuntimeError`)
CatchesRuntimeErrorOnly(e) == e.type = "RuntimeError"

\* lines 71, 83, 95: `except Exception` catches every exception raised here
Catches(e) == TRUE

Untried == [t \in Templates |-> "untried"]

\* entering try-block e: the call of _get with its url and headers
EnterBlock(e, code) ==
    /\ ep' = e
    /\ url' = [tmpl |-> ChainTmpl(e), code |-> code]
    /\ headers' = ChainHead(e)
    /\ tries' = DefaultTries
    /\ attempt' = 0
    /\ last' = NoReason
    /\ out' = NoOutcome
    /\ pc' = "get"

\* a try-block ended with nothing: on to the next, or line 98
FallThrough ==
    /\ tried' = [tried EXCEPT ![url.tmpl] = "nothing"]
    /\ resp' = NoOutcome
    /\ err' = NoError
    /\ IF ep < Blocks
       THEN /\ EnterBlock(ep + 1, url.code)
            /\ ret' = ret
       ELSE /\ pc' = "ret"
            /\ ret' = EmptySeries
            /\ UNCHANGED <<ep, url, headers, tries, attempt, last, out>>

\* main calls fetch_series(code): lines 104, 111, 115
CallFetch ==
    /\ pc = "call"
    /\ EnterBlock(1, CodeOf(CallOrder[k]))
    /\ tried' = Untried
    /\ resp' = NoOutcome
    /\ err' = NoError
    /\ s' = EmptySeries
    /\ ret' = EmptySeries
    /\ nCalls' = nCalls + 1
    /\ callGets' = 0
    /\ UNCHANGED <<k, s7a, s7b, got, df, written, file, status>>

\* s = parser(r.text), then the test of s.empty
Parse ==
    /\ pc = "got_response"
    /\ LET r == ChainParse(ep, resp.text)
       IN IF r.exc # NoneVal
          THEN /\ pc' = "raised"
               /\ err' = [type |-> r.exc, msg |-> NoMessage]
               /\ UNCHANGED <<ep, url, headers, tries, attempt, last, out,
                              resp, s, ret, tried>>
          ELSE /\ s' = r.s
               /\ IF ShortCircuits(r.s)
                  THEN /\ pc' = "ret"
                       /\ ret' = r.s
                       /\ tried' = [tried EXCEPT ![url.tmpl] = "series"]
                       /\ UNCHANGED <<ep, url, headers, tries, attempt, last,
                                      out, resp, err>>
                  ELSE FallThrough
    /\ UNCHANGED <<k, s7a, s7b, got, df, written, file, status, nCalls,
                   callGets>>

\* `except Exception as e`: log and go on; an exception the clause does not
\* catch leaves fetch_series and main, and ends the process
Except ==
    /\ pc = "raised"
    /\ IF Catches(err)
       THEN /\ FallThrough
            /\ status' = status
       ELSE /\ pc' = "exit"
            /\ status' = 1
            /\ UNCHANGED <<ep, url, headers, tries, attempt, last, out, resp,
                           err, ret, tried>>
    /\ UNCHANGED <<k, s, s7a, s7b, got, df, written, file, nCalls, callGets>>

---------------------------------------------------------------------------
(* main: lines 100-127.                                                    *)

\* (mutation: the gate is missing)
AnchorMissingNever(s10) == FALSE

\* line 105: the anchor gate
AnchorMissing(s10) == IsEmpty(s10)

\* (mutation: > for >=)
Pick7YTieToB(a, b) == IF Size(a) > Size(b) THEN a ELSE b

\* line 117: the 7Y variant kept
Pick7Y(a, b) == IF Size(a) >= Size(b) THEN a ELSE b

\* (mutation: the assignment is lost)
PutNothing(g, lbl, sr) == g

\* lines 108, 113, 117: got[lbl] = s, for a key the dict does not hold yet
Put(g, lbl, sr) == Append(g, <<lbl, sr>>)

\* line 112: `if not s.empty: got[lbl] = s`
Acquired(sr) == ~IsEmpty(sr)

\* (mutation: `and` for `or`)
Has7YBoth(a, b) == Size(a) # 0 /\ Size(b) # 0

\* line 116: `if s7a.size or s7b.size`
Has7Y(a, b) == Size(a) # 0 \/ Size(b) # 0

\* fetch_series has returned and main has its value: the locals of the call
\* are gone
PopFrame ==
    /\ ep' = 1
    /\ url' = NoUrl
    /\ headers' = NoneVal
    /\ attempt' = 0
    /\ out' = NoOutcome
    /\ resp' = NoOutcome
    /\ s' = EmptySeries
    /\ ret' = EmptySeries
    /\ tried' = Untried
    /\ callGets' = 0
    /\ UNCHANGED <<tries, last, err, nCalls>>

\* lines 104-108: the anchor came back
AnchorGate ==
    /\ pc = "ret"
    /\ k = 1
    /\ IF AnchorMissing(ret)
       THEN /\ pc' = "exit"
            /\ status' = 2
            /\ UNCHANGED <<k, got, ep, url, headers, tries, attempt, last, out,
                           resp, err, s, ret, tried, nCalls, callGets>>
       ELSE /\ got' = Put(got, "10Y", ret)
            /\ k' = 2
            /\ pc' = "call"
            /\ status' = status
            /\ PopFrame
    /\ UNCHANGED <<s7a, s7b, df, written, file>>

\* lines 110-113: one pass of the loop over 2Y, 5Y, 15Y, 30Y
StoreSeries ==
    /\ pc = "ret"
    /\ k \in 2..5
    /\ got' = IF Acquired(ret) THEN Put(got, CallOrder[k], ret) ELSE got
    /\ k' = k + 1
    /\ pc' = "call"
    /\ PopFrame
    /\ UNCHANGED <<s7a, s7b, df, written, file, status>>

\* line 115, first call
Store7A ==
    /\ pc = "ret"
    /\ k = 6
    /\ s7a' = ret
    /\ k' = 7
    /\ pc' = "call"
    /\ PopFrame
    /\ UNCHANGED <<s7b, got, df, written, file, status>>

\* lines 115-117: second call, then the choice between the variants
Reconcile ==
    /\ pc = "ret"
    /\ k = 7
    /\ s7b' = ret
    /\ got' = IF Has7Y(s7a, ret)
              THEN Put(got, "7Y", Pick7Y(s7a, ret))
              ELSE got
    /\ pc' = "assemble"
    /\ PopFrame
    /\ UNCHANGED <<k, s7a, df, written, file, status>>

\* lines 119-127: the empty check, the frame, the file, and the message
\* of line 127, which prints and changes nothing (of a frame without a
\* dated row df.index.max().date() is NaT, and `last: NaT` is printed)
Assemble ==
    /\ pc = "assemble"
    /\ pc' = "exit"
    /\ IF Len(got) = 0
       THEN /\ status' = 2
            /\ UNCHANGED <<df, written, file, err>>
       ELSE LET frame == DataFrame(got)
            IN IF frame.exc # NoneVal
               THEN /\ status' = 1
                    /\ err' = [type |-> frame.exc, msg |-> NoMessage]
                    /\ UNCHANGED <<df, written, file>>
               ELSE /\ df' = [columns |-> frame.columns,
                              rows |-> DropAllNa(SortIndex(frame.rows))]
                    /\ file' = ToCsv(df')
                    /\ written' = TRUE
                    /\ status' = 0
                    /\ err' = err
    /\ UNCHANGED <<k, ep, url, headers, tries, attempt, last, out, resp, s,
                   ret, tried, s7a, s7b, got, nCalls, callGets>>

---------------------------------------------------------------------------
(* The run.                                                                *)

Init ==
    /\ pc = "call"
    /\ k = 1
    /\ ep = 1
    /\ url = NoUrl
    /\ headers = NoneVal
    /\ tries = DefaultTries
    /\ attempt = 0
    /\ last = NoReason
    /\ out = NoOutcome
    /\ resp = NoOutcome
    /\ err = NoError
    /\ s = EmptySeries
    /\ ret = EmptySeries
    /\ tried = Untried
    /\ s7a = EmptySeries
    /\ s7b = EmptySeries
    /\ got = <<>>
    /\ df = NoFrame
    /\ written = FALSE
    /\ file = NoFile
    /\ status = Running
    /\ nCalls = 0
    /\ callGets = 0

Next ==
    \/ CallFetch
    \/ GetAttempt
    \/ GetRaise
    \/ Parse
    \/ Except
    \/ AnchorGate
    \/ StoreSeries
    \/ Store7A
    \/ Reconcile
    \/ Assemble

Spec == Init /\ [][Next]_vars

---------------------------------------------------------------------------
(* _get on its own: any URL of the chain, any tries from 0 to MaxTries.    *)

Urls == {[tmpl |-> ChainTmpl(e), code |-> CodeOf(CallOrder[i])] :
            e \in 1..Blocks, i \in 1..Len(CallOrder)}

InitGet ==
    /\ pc = "get"
    /\ k = 1
    /\ ep \in 1..Blocks
    /\ url \in {u \in Urls : u.tmpl = ChainTmpl(ep)}
    /\ headers = ChainHead(ep)
    /\ tries \in 0..MaxTries
    /\ attempt = 0
    /\ last = NoReason
    /\ out = NoOutcome
    /\ resp = NoOutcome
    /\ err = NoError
    /\ s = EmptySeries
    /\ ret = EmptySeries
    /\ tried = Untried
    /\ s7a = EmptySeries
    /\ s7b = EmptySeries
    /\ got = <<>>
    /\ df = NoFrame
    /\ written = FALSE
    /\ file = NoFile
    /\ status = Running
    /\ nCalls = 0
    /\ callGets = 0

NextGet == GetAttempt \/ GetRaise

SpecGet == InitGet /\ [][NextGet]_vars

---------------------------------------------------------------------------
(* The parsers on their own: fetch_series holds a response of its first,   *)
(* second or third block, with any text of the bounded sets below, and     *)
(* parses it.                                                              *)

Labels == {"2024-01-01", "2024-01-02", "n/a"}
Cells == {"2.00", "2.10", "abc", "."}
Keys == {"0", "1", "-1"}
JsonValues == {[t |-> "num", v |-> "2.0"], [t |-> "null"],
               [t |-> "str", v |-> "abc"], [t |-> "str", v |-> "2.10"]}

CsvHeaders == {SdmxHeader, <<"Date", "Close">>, <<"date", "Value">>,
               <<"Date", "Date", "Value">>,
               <<"OBS_VALUE", "TIME_PERIOD">>, <<"KEY", "OBS_VALUE">>,
               <<"TIME_PERIOD", "KEY">>}

JsonInputs ==
    {ErrorPage,
     JsonDoc("array", "absent", "absent", <<>>, FALSE, <<>>),
     JsonDoc("object", "absent", "absent", <<>>, FALSE, <<>>),
     JsonDoc("object", "empty", "absent", <<>>, TRUE, <<>>),
     JsonDoc("object", "present", "absent", <<>>, TRUE, <<>>),
     JsonDoc("object", "present", "empty", <<>>, FALSE, <<>>)}
    \cup {JsonDoc("object", "present", "present", obs, FALSE, <<>>) :
            obs \in SeqsUpTo(Keys \X JsonValues, MaxRows)}
    \cup {JsonDoc("object", "present", "present", obs, TRUE, times) :
            obs \in SeqsUpTo(Keys \X JsonValues, MaxRows),
            times \in SeqsUpTo(Labels, MaxRows)}

\* pages that are no table: a byte order mark alone; a quoted field left
\* open on the first line, on a later line, after an escaped quote; quoted
\* fields that are closed; a quote inside a plain field
BomPage == RawText(<<"U+FEFF", "\n">>)
QuotePage == RawText(<<"\"", "B", "u", "s", "y">>)
QuotePages ==
    {QuotePage,
     RawText(<<"B", "\n", "\"", "x">>),
     RawText(<<"\"", "a", "\"", "\"", "b">>),
     RawText(<<"\"", "\"", "\"">>),
     RawText(<<"\"", "B", "\"">>),
     RawText(<<"\"", "\"">>),
     RawText(<<" ", "\"", "B">>),
     RawText(<<"U+FEFF", "\"", "B">>)}

\* a table whose lines have a field beyond the header (an index)
IndexedTable(h, data) ==
    CsvTable(h, [i \in 1..Len(data) |-> <<"BBK01">> \o RenderRow(h, data[i])])

\* a table whose lines are cut short after their first field
ShortTable(h, data) ==
    CsvTable(h, [i \in 1..Len(data) |-> <<RenderRow(h, data[i])[1]>>])

CsvInputs ==
    {ErrorPage, BomPage, RaggedTable("WT1010")} \cup QuotePages
    \cup {IndexedTable(h, data) :
            h \in {SdmxHeader, <<"Date", "Close">>},
            data \in SeqsUpTo(Labels \X {"2.00"}, MaxRows)}
    \cup {ShortTable(<<"Date", "Close">>, data) :
            data \in SeqsUpTo(Labels \X {"2.00"}, MaxRows)}
    \cup {RenderCsv(h, data) :
            h \in CsvHeaders, data \in SeqsUpTo(Labels \X Cells, MaxRows)}

InitParse ==
    /\ pc = "got_response"
    /\ k = 1
    /\ ep \in 1..Blocks
    /\ url = [tmpl |-> ChainTmpl(ep), code |-> CodeOf(CallOrder[k])]
    /\ headers = ChainHead(ep)
    /\ tries = DefaultTries
    /\ attempt = 1
    /\ last = NoReason
    /\ resp \in {Response(200, text) :
                    text \in IF ep = 1 THEN JsonInputs ELSE CsvInputs}
    /\ out = resp
    /\ err = NoError
    /\ s = EmptySeries
    /\ ret = EmptySeries
    /\ tried = [t \in Templates |->
                  IF \E e \in 1..(ep - 1) : t = ChainTmpl(e)
                  THEN "nothing" ELSE "untried"]
    /\ s7a = EmptySeries
    /\ s7b = EmptySeries
    /\ got = <<>>
    /\ df = NoFrame
    /\ written = FALSE
    /\ file = NoFile
    /\ status = Running
    /\ nCalls = 1
    /\ callGets = ep

NextParse == Parse \/ Except

SpecParse == InitParse /\ [][NextParse]_vars

---------------------------------------------------------------------------
(* Properties.  A step issues a GET exactly when callGets grows by one.    *)

GetIssued == callGets' = callGets + 1

InFetch == pc \in {"get", "got_response", "raised"}

\* the order of the chain as the specification states it
ChainOrder == <<BBK_DATA, BBK_DL_HYPH, BBK_DL_UND>>

HasKey(lbl) == \E i \in 1..Len(got) : got[i][1] = lbl

\* C1: once a parser hands fetch_series a non-empty series, the very next
\* thing is the return of that series, with no GET in between, and no GET
\* is issued while the call holds a non-empty series.
C1_ShortCircuit ==
    [][/\ (pc = "got_response" /\ pc' # "raised" /\ ~IsEmpty(s'))
            => (pc' = "ret" /\ ret' = s' /\ callGets' = callGets)
       /\ GetIssued => IsEmpty(s)]_vars

C1_Witness ==
    /\ pc = "ret"
    /\ ~IsEmpty(ret)
    /\ tried[BBK_DATA] = "nothing"
    /\ tried[BBK_DL_HYPH] = "series"
    /\ tried[BBK_DL_UND] = "untried"

\* C2: a GET goes to an endpoint only when every earlier endpoint of the
\* order JSON, CSV-hyphen, CSV-underscore has been tried and gave nothing
\* and neither it nor a later one has been finished; and an endpoint that
\* gives nothing hands over to the next endpoint of the same code (the
\* last one to the return).
C2_InOrder ==
    [][/\ GetIssued =>
            \E e \in 1..3 :
               /\ url.tmpl = ChainOrder[e]
               /\ \A j \in 1..3 :
                     tried[ChainOrder[j]] = IF j < e THEN "nothing" ELSE "untried"
       /\ \A e \in 1..3 :
            (tried[ChainOrder[e]] = "untried" /\ tried'[ChainOrder[e]] = "nothing")
               => IF e < 3
                  THEN pc' = "get" /\ attempt' = 0
                       /\ url' = [tmpl |-> ChainOrder[e + 1], code |-> url.code]
                  ELSE pc' = "ret"]_vars

C2_Witness ==
    /\ pc = "get"
    /\ url.tmpl = BBK_DL_UND
    /\ attempt = 1
    /\ tried[BBK_DATA] = "nothing"
    /\ tried[BBK_DL_HYPH] = "nothing"

\* C3: from inside fetch_series the only way out is its return, the process
\* still running; and the series it returns is empty exactly when each of
\* the three endpoints gave nothing.
C3_NeverPropagates ==
    /\ [](pc = "ret" =>
            (IsEmpty(ret) <=> \A t \in Templates : tried[t] = "nothing"))
    /\ [][InFetch => (pc' \in {"get", "got_response", "raised", "ret"}
                      /\ status' = Running)]_vars

C3_Witness ==
    /\ pc = "ret"
    /\ k = 2
    /\ IsEmpty(ret)
    /\ \A t \in Templates : tried[t] = "nothing"

\* C4: _get issues at most `tries` GETs; an attempt answered with status
\* 200 and a body that is not all whitespace ends the call with that
\* response, every other outcome leaves the call in its loop; and the call
\* raises only after exactly `tries` GETs, none of which it accepted.
C4_BoundedRetry ==
    /\ [](callGets <= tries)
    /\ [](pc = "raised" =>
            (callGets = tries /\ resp = NoOutcome
             /\ (tries > 0 => ~(out.kind = "resp" /\ out.status = 200
                                /\ ~IsBlank(out.text)))))
    /\ [][GetIssued =>
            IF out'.kind = "resp" /\ out'.status = 200 /\ ~IsBlank(out'.text)
            THEN pc' = "got_response" /\ resp' = out'
            ELSE pc' = "get" /\ resp' = NoOutcome]_vars

C4_Witness ==
    /\ pc = "got_response"
    /\ tries = 3
    /\ callGets = 2
    /\ resp = out

\* C5: the error _get raises after at least one attempt carries the reason
\* of the most recent attempt.
C5_LastReason ==
    (pc = "raised" /\ tries > 0)
        => (err.type = "RuntimeError" /\ err.msg = ReasonOf(out))

C5_Witness ==
    /\ pc = "raised"
    /\ tries = 3
    /\ err.msg.what = "HTTP"
    /\ err.msg.status = 503
    /\ Len(err.msg.text) = ReasonChars

\* C6: an empty anchor ends the run at once with status 2, and a frame or a
\* file exists only in a run whose anchor series was not empty.
C6_AnchorGate ==
    /\ [][(pc = "ret" /\ k = 1 /\ IsEmpty(ret))
            => (pc' = "exit" /\ status' = 2)]_vars
    /\ [](status = 2 => (~written /\ df = NoFrame /\ file = NoFile))
    /\ []((written \/ df # NoFrame)
            => \E i \in 1..Len(got) : got[i][1] = "10Y" /\ ~IsEmpty(got[i][2]))

C6_Witness ==
    /\ pc = "exit"
    /\ status = 2
    /\ k = 1
    /\ ~written

\* C7: a run whose anchor series was acquired ends with status 0 and the
\* file written.
C7_AnchorSuffices ==
    (pc = "exit" /\ HasKey("10Y")) => (status = 0 /\ written)

\* C8: after the two 7Y calls, unless both variants are empty, the series
\* under 7Y is the variant with more observations, and 7Y_A on a tie.
C8_MostObservations ==
    (pc \in {"assemble", "exit"} /\ k = 7 /\ (Size(s7a) > 0 \/ Size(s7b) > 0))
        => \E i \in 1..Len(got) :
              /\ got[i][1] = "7Y"
              /\ got[i][2] = IF Size(s7a) > Size(s7b) THEN s7a
                             ELSE IF Size(s7b) > Size(s7a) THEN s7b
                             ELSE s7a

C8_Witness ==
    /\ pc = "assemble"
    /\ Size(s7a) > 0
    /\ Size(s7a) = Size(s7b)
    /\ s7a # s7b
    /\ got[Len(got)] = <<"7Y", s7a>>

\* C9: the parsers never raise: whatever the text, a call of _parse_json
\* or _parse_csv ends in a series (an empty one for malformed input), never
\* in an exception.  (The exception of a run of SpecParse that is not the
\* RuntimeError of _get is one a parser raised.)
C9_ParsersNeverThrow == ~(pc = "raised" /\ err.type # "RuntimeError")

\* C10: the dated entries of a parsed series are in strictly ascending
\* order of date, so no date occurs twice.
C10_StrictlyAscending ==
    \A i, j \in 1..Len(s) :
        (i < j /\ s[i][1] # NaT /\ s[j][1] # NaT) => s[i][1] < s[j][1]

\* the dates that occur in at least one acquired series
DatesAcquired == UNION {Range(Dates(got[c][2])) : c \in 1..Len(got)}

\* the value a series holds at a date it has
ValueAt(sr, d) == sr[CHOOSE j \in 1..Len(sr) : sr[j][1] = d][2]

\* C11: the written curve has exactly one row per date of the union of the
\* acquired series' dates, in ascending order, and each cell is the value
\* its series has at the row's date, or absent when the series has none.
C11_OuterJoin ==
    written =>
        /\ [i \in 1..Len(df.rows) |-> df.rows[i][1]] = SortedSeq(DatesAcquired)
        /\ \A i \in 1..Len(df.rows) : \A c \in 1..Len(got) :
              df.rows[i][2][c] =
                 IF df.rows[i][1] \in Range(Dates(got[c][2]))
                 THEN ValueAt(got[c][2], df.rows[i][1])
                 ELSE NaN

\* the keys of the mapping of acquired series, in insertion order
KeysOf(g) == [c \in 1..Len(g) |-> g[c][1]]

LogicalKeys == {"10Y", "2Y", "5Y", "15Y", "30Y", "7Y"}

\* C12: a key enters the mapping exactly when its series came back
\* non-empty (7Y when at least one variant did, and its omission does not
\* end the run); the mapping holds logical keys only, each once and with a
\* non-empty series, 10Y among them; and the columns of the written curve
\* are exactly the keys of the mapping.
C12_ColumnSet ==
    /\ [][(pc = "ret" /\ k \in 2..5)
            => ((\E c \in 1..Len(got') : got'[c][1] = CallOrder[k])
                   <=> ~IsEmpty(ret))]_vars
    /\ [][(pc = "ret" /\ k = 7)
            => /\ HasKey("7Y")' <=> (~IsEmpty(s7a) \/ ~IsEmpty(ret))
               /\ status' = Running /\ pc' = "assemble"]_vars
    /\ [](/\ Range(KeysOf(got)) \subseteq LogicalKeys
          /\ ~HasDuplicates(KeysOf(got))
          /\ \A c \in 1..Len(got) : ~IsEmpty(got[c][2])
          /\ (k > 1 => HasKey("10Y")))
    /\ [](written => /\ df.columns = KeysOf(got)
                     /\ file.header = <<"Date">> \o KeysOf(got))

C12_Witness ==
    /\ written
    /\ KeysOf(got) = <<"10Y", "5Y", "15Y">>
    /\ IsEmpty(s7a)
    /\ IsEmpty(s7b)

\* C13: every row of the written curve, in the frame and in the file, has
\* at least one column with a present value.
C13_NoAllAbsentRow ==
    written =>
        /\ \A i \in 1..Len(df.rows) :
              \E c \in 1..Len(df.columns) : df.rows[i][2][c] # NaN
        /\ Len(file.lines) = Len(df.rows)
        /\ \A i \in 1..Len(file.lines) :
              \E c \in 2..Len(file.header) : file.lines[i][c] # ""

\* a date whose row had every column absent was removed
C13_Witness ==
    /\ written
    /\ \E d \in DatesAcquired :
          /\ \A i \in 1..Len(df.rows) : df.rows[i][1] # d
          /\ \A c \in 1..Len(got) :
                d \in Range(Dates(got[c][2])) => ValueAt(got[c][2], d) = NaN

\* C15: no entry of a series returned by _parse_json has an unparsed date
\* as its index.
C15_JsonDropsUnparsedDates ==
    tried[BBK_DATA] = "series" => \A i \in 1..Len(s) : s[i][1] # NaT

\* C16: a series a parser returned holds parsed numeric values only, so a
\* payload whose values are all unparsable gives an empty series and the
\* chain goes on to the next endpoint.
C16_OnlyNumericValues ==
    /\ \A i \in 1..Len(s) : s[i][2] # NaN
    /\ \A i \in 1..Len(ret) : ret[i][2] # NaN

\* C17: the return of the 7Y_A call, whatever it returns, is followed by
\* the 7Y_B call; that call starts at the first endpoint with no endpoint
\* tried, whatever 7Y_A returned; every GET of the sixth call is for the
\* code of 7Y_A and every GET of the seventh for the code of 7Y_B, at the
\* endpoint the call's own chain has reached; and the reconciliation sees
\* the results of both calls.
C17_BothVariantsResolved ==
    /\ [][(pc = "ret" /\ k = 6) => (pc' = "call" /\ k' = 7 /\ s7a' = ret)]_vars
    /\ [][(pc = "call" /\ k = 7)
            => /\ pc' = "get" /\ attempt' = 0 /\ tried' = Untried
               /\ url' = [tmpl |-> BBK_DATA, code |-> "WT7070"]
               /\ s7a' = s7a]_vars
    /\ [][(GetIssued /\ k \in {6, 7})
            => /\ url.code = IF k = 6 THEN "WT0707" ELSE "WT7070"
               /\ url.tmpl = ChainOrder[ep]
               /\ nCalls = k]_vars
    /\ [][(pc = "ret" /\ k = 7) => (pc' = "assemble" /\ s7b' = ret)]_vars
    /\ [](pc = "assemble" => nCalls = 7)

\* the chain of 7Y_B at its third endpoint although 7Y_A gave a series
C17_Witness ==
    /\ pc = "get"
    /\ k = 7
    /\ ~IsEmpty(s7a)
    /\ url = [tmpl |-> BBK_DL_UND, code |-> "WT7070"]
    /\ attempt = 1

\* C18: a GET for a code other than the anchor's is issued only when the
\* mapping already holds a non-empty series under 10Y; until then every
\* GET is for the anchor's code, in the first call; and a run that ends at
\* the anchor gate has made that one call only.
C18_AnchorFirst ==
    /\ [][(GetIssued /\ url.code # "WT1010")
            => (Len(got) > 0 /\ got[1][1] = "10Y" /\ ~IsEmpty(got[1][2])
                /\ nCalls > 1)]_vars
    /\ [][(GetIssued /\ ~HasKey("10Y"))
            => (url.code = "WT1010" /\ nCalls = 1 /\ k = 1)]_vars
    /\ []((pc = "exit" /\ ~HasKey("10Y")) => (nCalls = 1 /\ status = 2))

\* the first GET for a non-anchor code
C18_Witness ==
    /\ pc = "get"
    /\ nCalls = 2
    /\ url.code = "WT0202"
    /\ callGets = 1
    /\ got[1][1] = "10Y"

\* C19: when main is at the empty-result check the mapping holds the key
\* 10Y, the step from the check never takes the status 2, and a run that
\* ends with status 2 ended at the anchor gate.
C19_EmptyResultUnreachable ==
    /\ [](pc = "assemble" => (Len(got) > 0 /\ HasKey("10Y")))
    /\ [][pc = "assemble" => status' # 2]_vars
    /\ [](status = 2 => (k = 1 /\ nCalls = 1 /\ got = <<>>))

\* the check reached with the anchor alone
C19_Witness ==
    /\ pc = "assemble"
    /\ KeysOf(got) = <<"10Y">>
    /\ IsEmpty(s7a)
    /\ IsEmpty(s7b)

\* 3 endpoints x 3 tries = 9 GETs in a call; 7 upstream codes = 7 calls
MaxGetsPerCall == Blocks * DefaultTries
MaxCalls == Len(CallOrder)

\* the steps a try-block can still take, and a call, at their longest
BlockSteps == 2 * DefaultTries + 2
CallSteps == Blocks * BlockSteps + 2

\* an upper bound of the number of steps the run still has to take
StepsLeft ==
    LET inCall ==
            CASE pc = "call" -> CallSteps - 1
              [] pc = "get" ->
                    (Blocks - ep) * BlockSteps + 2 * (tries - attempt) + 2
              [] pc = "got_response" -> (Blocks - ep) * BlockSteps + 2
              [] pc = "raised" -> (Blocks - ep) * BlockSteps + 1
              [] OTHER -> 0
    IN CASE pc = "exit" -> 0
         [] pc = "assemble" -> 1
         [] OTHER -> (MaxCalls - k) * CallSteps + inCall + 2

\* some step of the program can be taken: main is at a call, at a return
\* of one of its seven calls or at the assembly, or fetch_series and _get
\* are at one of their steps
CanStep ==
    \/ pc = "call" /\ k \in 1..MaxCalls
    \/ pc = "get" /\ (InRangeOf(attempt, tries) => Outcomes(url, headers) # {})
    \/ pc \in {"got_response", "raised"} /\ ep \in 1..Blocks
    \/ pc = "ret" /\ k \in 1..MaxCalls
    \/ pc = "assemble"

\* C20: every run ends: the number of steps left is a natural number that
\* every step lowers, and only a run that has exited cannot step.  A
\* fetch_series call issues at most 9 GETs and a run makes at most 7 calls,
\* each GET inside one of them, so a run issues at most 63; a run whose
\* anchor is empty made one call, so at most 9; and a GET is issued only
\* from the loop of _get, with its response or its exception in hand when
\* the step ends, so no two requests overlap.
C20_TerminatesWithinBudget ==
    /\ [](StepsLeft \in Nat)
    /\ [][StepsLeft' < StepsLeft]_vars
    /\ [](pc # "exit" => CanStep)
    /\ [](callGets <= MaxGetsPerCall /\ nCalls <= MaxCalls)
    /\ []((pc = "exit" /\ status = 2) => (nCalls = 1 /\ callGets <= MaxGetsPerCall))
    /\ [][GetIssued => (pc = "get" /\ nCalls >= 1 /\ out' # NoOutcome
                        /\ pc' \in {"get", "got_response"})]_vars
    /\ [][callGets' \in {callGets, callGets + 1, 0}]_vars
    /\ [][nCalls' # nCalls => (pc = "call" /\ nCalls' = nCalls + 1 /\ callGets' = 0)]_vars

\* the seventh call with its ninth GET spent
C20_Witness ==
    /\ pc = "get"
    /\ nCalls = MaxCalls
    /\ callGets = MaxGetsPerCall
    /\ ep = Blocks
    /\ attempt = DefaultTries

\* C14 (two runs that receive the same answers issue the same requests and
\* end with the same table and status) relates two behaviours.  Every step
\* above other than the answer of a GET assigns each variable one value, so
\* any formula over one behaviour that restates it compares these
\* definitions with themselves; none is given.

===========================================================================
